---- MODULE Spec2Model ----
(***************************************************************************)
(* A model of the spatial Needleman-Wunsch docking core:                   *)
(*   alignment.py  calculate_placement_score, spatial_alignment            *)
(*   pareto.py     pareto_optimal_docking                                  *)
(*   boltzmann.py  boltzmann_ensemble_docking                              *)
(*   conformers.py generate_torsion_states, ConformationalDockingState     *)
(*   adaptive.py   AdaptiveScoringFunction                                 *)
(*   core.py       Voxel, SpatialDocking.align, align_multiple             *)
(*                                                                         *)
(* Grids are Python dicts: a dict keeps its keys in insertion order, so a  *)
(* grid is a sequence of voxels with pairwise distinct positions.          *)
(*                                                                         *)
(* Placement scores are floats.  The matrix weights of the repository are  *)
(* multiples of 0.5, which floats add exactly; the normalisation           *)
(* score / n * sqrt(n) rounds.  Scores are modelled in fixed point, an     *)
(* integer v standing for v / Scale, every division, square root and       *)
(* product rounding to the nearest representable value, and best_score     *)
(* carries float('-inf') as a value of its own.                            *)
(***************************************************************************)
EXTENDS Integers, Sequences, FiniteSets, TLC

VARIABLES
    cavity_grid,            \* alignment input: sequence of voxels
    molecule_grid,          \* alignment input: sequence of voxels
    compatibility_matrix,   \* alignment input: (type, type) -> weight, partial
    gap_penalty,            \* alignment input
    pc,                     \* position of spatial_alignment
    cavity_positions,       \* local of spatial_alignment
    idx,                    \* loop position in cavity_positions (1-based)
    best_score,             \* local of spatial_alignment
    best_offset,            \* local of spatial_alignment
    evaluated,              \* history: the offsets scored by the current call
    result,                 \* what the last completed call returned
    prev_result,            \* what the call before it returned
    scored,                 \* the last direct call of calculate_placement_score
    objectives,             \* pareto input: name -> (position -> score)
    all_solutions,          \* local of pareto_optimal_docking
    pareto_frontier,        \* local, then result, of pareto_optimal_docking
    all_scores,             \* boltzmann: the landscape the callback returns
    temperature,            \* boltzmann input, in Kelvin
    boltzmann_weights,      \* local of boltzmann_ensemble_docking
    Z,                      \* local of boltzmann_ensemble_docking
    probabilities,          \* result of boltzmann_ensemble_docking
    n_bonds,                \* generate_torsion_states input
    torsion_steps,          \* generate_torsion_states input
    angles,                 \* local of generate_torsion_states
    product_it,             \* the itertools.product iterator being consumed
    torsion_states,         \* the list generate_torsion_states builds
    conf_a,                 \* a ConformationalDockingState and its index()
    conf_b,                 \* another one
    base_weights,           \* AdaptiveScoringFunction.__init__ argument
    weights,                \* AdaptiveScoringFunction.weights
    known_binders,          \* update_weights argument
    known_activities,       \* update_weights argument
    initial,                \* local of update_weights
    trials,                 \* the calls of loss the optimizer has made
    minimize_result,        \* result.x
    returned,               \* what update_weights returned
    scoring_calls,          \* the calls of scoring_function, in order
    weights_is_base,        \* self.weights is the caller's mapping object
    updates_left,           \* the calls of update_weights still to come
    voxel_args,             \* the arguments of a Voxel construction
    voxel_outcome,          \* the Voxel made, or the exception raised
    docker,                 \* a SpatialDocking instance
    matrix_is_none,         \* compatibility_matrix=None in a call of align
    molecules,              \* align_multiple argument
    align_result,           \* what a call of align ended in
    multiple,               \* a call of align_multiple: position and locals
    docking_result,         \* get_binding_site_analysis argument
    analysis,               \* local, then result, of get_binding_site_analysis
    worker_scores,          \* fan-out: the slot each scoring worker fills
    fanout,                 \* fan-out: position and result of the reduction
    gap_pair,               \* two gap penalties, as doubles
    gap_search              \* spatial_alignment run with one, then the other

vars == <<cavity_grid, molecule_grid, compatibility_matrix, gap_penalty, pc,
          cavity_positions, idx, best_score, best_offset, evaluated, result,
          prev_result, scored, objectives, all_solutions, pareto_frontier,
          all_scores, temperature, boltzmann_weights, Z, probabilities,
          n_bonds, torsion_steps, angles, product_it, torsion_states,
          conf_a, conf_b,
          base_weights, weights, known_binders, known_activities, initial,
          trials, minimize_result, returned, voxel_args, voxel_outcome,
          docker, matrix_is_none, molecules, align_result, multiple,
          scoring_calls, weights_is_base, updates_left,
          docking_result, analysis, worker_scores, fanout, gap_pair,
          gap_search>>

alignment_vars == <<cavity_positions, best_score, best_offset, evaluated,
                    result, prev_result, scored>>
pareto_vars == <<objectives, all_solutions, pareto_frontier>>
boltzmann_vars == <<all_scores, temperature, boltzmann_weights, Z,
                    probabilities>>

conformer_vars == <<n_bonds, torsion_steps, angles, product_it,
                    torsion_states, conf_a, conf_b>>
adaptive_vars == <<base_weights, weights, known_binders, known_activities,
                   initial, trials, minimize_result, returned, scoring_calls,
                   weights_is_base, updates_left>>
voxel_vars == <<voxel_args, voxel_outcome>>
docking_vars == <<docker, matrix_is_none, molecules, align_result, multiple>>
analysis_vars == <<docking_result, analysis>>
fanout_vars == <<worker_scores, fanout>>
gap_vars == <<gap_pair, gap_search>>
extension_vars == <<conformer_vars, adaptive_vars, voxel_vars, docking_vars,
                    analysis_vars, fanout_vars, gap_vars>>

inputs == <<cavity_grid, molecule_grid, compatibility_matrix, gap_penalty>>
search_vars == <<inputs, alignment_vars, pareto_vars, boltzmann_vars>>
later_vars == <<analysis_vars, fanout_vars, gap_vars>>
outside_conformers == <<search_vars, adaptive_vars, voxel_vars, docking_vars,
                        later_vars>>
outside_adaptive == <<search_vars, conformer_vars, voxel_vars, docking_vars,
                      later_vars>>
outside_voxels == <<search_vars, conformer_vars, adaptive_vars, docking_vars,
                    later_vars>>
outside_docking == <<search_vars, conformer_vars, adaptive_vars, voxel_vars,
                     later_vars>>
first_extensions == <<conformer_vars, adaptive_vars, voxel_vars, docking_vars>>

----------------------------------------------------------------------------
(* Bounds of the model *)

Scale == 1000
MaxCavity == 2
MaxMolecule == 2

Coords == {0, 1, 2}
Positions == {<<x, 0, 0>> : x \in Coords}
PropTypes == {"hydrophobic", "polar"}
Weights == {2 * Scale, -3 * Scale}
GapPenalties == {-Scale, Scale}
ScoreOffsets == {<<-1, 0, 0>>, <<0, 0, 0>>, <<1, 0, 0>>}

MaxParetoPositions == 3
ObjectiveNames == {"compatibility", "contacts"}
ObjectiveValues == {0, 1, 2}

MaxLandscape == 3
MaxBonds == 3
MaxStates == 64
TorsionSteps == {1, 2, 4, 6, 13}
MaxTorsionAngles == 2
TorsionAngleValues == {0, 180 * Scale}
MaxMolecules == 2
MaxWeights == 2
MaxBinders == 2
MaxTrials == 3
MaxUpdates == 2
WeightNames == {"hydrophobic", "polar", "charged"}
BaseValue == [name \in WeightNames |-> IF name = "polar" THEN 2 ELSE 1]
TrialValues == {0, 2}
FieldValues ==
    {[k |-> "fin", v |-> -1], [k |-> "fin", v |-> 0],
     [k |-> "fin", v |-> Scale \div 2], [k |-> "fin", v |-> Scale],
     [k |-> "fin", v |-> Scale + 1], [k |-> "nan", v |-> 0]}
BinderProfiles ==
    {[name \in WeightNames |-> IF name \in S THEN 1 ELSE 0] :
        S \in {{"hydrophobic"}, {"polar"}, {"hydrophobic", "polar", "charged"}}}
Temperatures == {1, 2}
LandscapeScores == {-2200, -2, 0, 2, 1200, 2200}

----------------------------------------------------------------------------
(* Floats *)

Fin(v) == [k |-> "fin", v |-> v]
NegInf == [k |-> "-inf", v |-> 0]
NoResult == [score |-> NegInf, offset |-> <<>>, outcome |-> "none"]
NotScored == [offset |-> <<>>, score |-> 0, called |-> FALSE, raw |-> 0,
              overlap_count |-> 0]

\* a > b on floats
FGt(a, b) ==
    /\ a.k = "fin"
    /\ (b.k = "-inf" \/ a.v > b.v)

\* a / b rounded to nearest, b > 0
RoundDiv(a, b) ==
    IF a >= 0 THEN (2 * a + b) \div (2 * b)
    ELSE -((2 * (-a) + b) \div (2 * b))

\* np.sqrt(n) in fixed point, for the overlap counts a molecule can give
SqrtTable ==
    [n \in 0..(MaxMolecule + 1) |->
        CHOOSE r \in 0..(n * Scale) :
            /\ r * r <= n * Scale * Scale
            /\ (r + 1) * (r + 1) > n * Scale * Scale]

FSqrt(n) == SqrtTable[n]

FMul(a, b) == RoundDiv(a * b, Scale)

----------------------------------------------------------------------------
(* binary64, as boltzmann.py and conformers.py use it.                     *)
(* A finite positive double is the set of the exponents of its one bits,   *)
(* at most Precision consecutive positions wide.  The landscapes of the    *)
(* model lie on the lattice where score / kT is a whole multiple of ln 2,  *)
(* so that np.exp gives a power of two; sums and quotients round to        *)
(* nearest, ties to even, overflow to inf and underflow to 0.0 as the      *)
(* hardware does.                                                          *)

Precision == 53
MaxExponent == 1023
MinExponent == -1074

DblZero == [k |-> "zero", bits |-> {}]
DblInf == [k |-> "inf", bits |-> {}]
DblNaN == [k |-> "nan", bits |-> {}]
DblFin(B) == [k |-> "fin", bits |-> B]

MaxOf(B) == CHOOSE b \in B : \A c \in B : c <= b
MinOf(B) == CHOOSE b \in B : \A c \in B : b <= c

\* B + 2^b, exactly
RECURSIVE AddBit(_, _)
AddBit(B, b) == IF b \in B THEN AddBit(B \ {b}, b + 1) ELSE B \cup {b}

\* A + B, exactly: a position of the sum holds the two bits and the carry
\* into it, which some lower position made and every one between passed on
AddBits(A, B) ==
    IF A = {} THEN B
    ELSE IF B = {} THEN A
    ELSE LET lo == MinOf(A \cup B)
             hi == MaxOf(A \cup B) + 1
             Carry(p) == \E q \in lo..(p - 1) :
                            /\ q \in A /\ q \in B
                            /\ \A r \in (q + 1)..(p - 1) : r \in A \/ r \in B
         IN  {p \in lo..hi : ((p \in A) # (p \in B)) # Carry(p)}

\* an exact positive value rounded to a double
DblRound(B) ==
    LET top == MaxOf(B)
        low == IF top - (Precision - 1) < MinExponent THEN MinExponent
               ELSE top - (Precision - 1)
        dropped == {b \in B : b < low}
        kept == B \ dropped
        round_up == /\ (low - 1) \in dropped
                    /\ (dropped # {low - 1} \/ low \in kept)
        rounded == IF round_up THEN AddBit(kept, low) ELSE kept
    IN  IF rounded = {} THEN DblZero
        ELSE IF MaxOf(rounded) > MaxExponent THEN DblInf
        ELSE DblFin(rounded)

\* a + b of doubles that are not negative
DblAdd(a, b) ==
    IF a.k = "nan" \/ b.k = "nan" THEN DblNaN
    ELSE IF a.k = "inf" \/ b.k = "inf" THEN DblInf
    ELSE IF a.k = "zero" THEN b
    ELSE IF b.k = "zero" THEN a
    ELSE DblRound(AddBits(a.bits, b.bits))

\* np.exp(x) for x = K * ln 2
DblExp2(K) ==
    IF K > MaxExponent THEN DblInf
    ELSE IF K < MinExponent THEN DblZero
    ELSE DblFin({K})

\* the integer a set of bit positions >= 0 spells
RECURSIVE BitsValue(_)
BitsValue(B) ==
    IF B = {} THEN 0
    ELSE LET b == MinOf(B) IN 2 ^ b + BitsValue(B \ {b})

\* the binary digits of r / D at the positions p, p - 1, ..., last (r < D),
\* below them the digit that decides the rounding, and below that one a
\* digit that tells whether anything is left of the quotient
RECURSIVE QuotientBits(_, _, _, _)
QuotientBits(r, D, p, last) ==
    IF p < last - 1 THEN (IF r # 0 THEN {p} ELSE {})
    ELSE IF 2 * r >= D
         THEN {p} \cup QuotientBits(2 * r - D, D, p - 1, last)
         ELSE QuotientBits(2 * r, D, p - 1, last)

\* 2^K / B for a finite positive B
DblDivBits(K, B) ==
    LET lo == MinOf(B)
        h == MaxOf(B) - lo
        D == BitsValue({b - lo : b \in B})
    IN  IF h = 0 THEN DblRound({K - lo})
        ELSE LET digits == QuotientBits(1, D, -1, -(h + Precision))
             IN  DblRound({d + K - lo : d \in digits})

\* w / z for a weight w (a power of two, 0.0 or inf) and a sum z of weights
DblDiv(w, z) ==
    IF w.k = "nan" \/ z.k = "nan" THEN DblNaN
    ELSE IF w.k = "inf" THEN (IF z.k = "inf" THEN DblNaN ELSE DblInf)
    ELSE IF z.k = "inf" THEN DblZero
    ELSE IF z.k = "zero" THEN (IF w.k = "zero" THEN DblNaN ELSE DblInf)
    ELSE IF w.k = "zero" THEN DblZero
    ELSE DblDivBits(MaxOf(w.bits), z.bits)

\* the bits of a natural number
IntBits(n) == {b \in 0..30 : (n \div (2 ^ b)) % 2 = 1}

\* float(n) for a natural number below 2^31
DblOfInt(n) == IF n = 0 THEN DblZero ELSE DblFin(IntBits(n))

\* a / d of two such floats, d positive
DblRatio(a, d) ==
    IF a = 0 THEN DblZero
    ELSE DblRound(IntBits(a \div d)
                  \cup QuotientBits(a % d, d, -1, -(Precision + d)))

\* the exact product of a natural number and a set of bits
RECURSIVE TimesBits(_, _)
TimesBits(N, B) ==
    IF N = {} THEN {}
    ELSE LET n == MinOf(N)
         IN  AddBits(TimesBits(N \ {n}, B), {b + n : b \in B})

\* i * x for a natural number i and a double x that is not negative
DblTimesInt(i, x) ==
    IF x.k = "nan" THEN DblNaN
    ELSE IF x.k = "inf" THEN (IF i = 0 THEN DblNaN ELSE DblInf)
    ELSE IF i = 0 \/ x.k = "zero" THEN DblZero
    ELSE DblRound(TimesBits(IntBits(i), x.bits))

----------------------------------------------------------------------------
(* Grids *)

Keys(grid) == {grid[i].position : i \in 1..Len(grid)}

Lookup(grid, pos) ==
    grid[CHOOSE i \in 1..Len(grid) : grid[i].position = pos]

\* the dicts of at most n voxels, in every insertion order
Grids(n) ==
    {g \in UNION {[1..m -> [position : Positions, property_type : PropTypes]]
                     : m \in 0..n} :
        \A i, j \in 1..Len(g) : i # j => g[i].position # g[j].position}

\* the dicts of at most n voxels, inserted in increasing position order
SortedGrids(n) ==
    {g \in Grids(n) :
        \A i, j \in 1..Len(g) : i < j => g[i].position[1] < g[j].position[1]}

\* the matrices over these keys: a pair may be stored in one order, in both
\* orders (with equal or different weights) or, as <<"polar", "polar">>, in
\* neither
MatrixKeys ==
    {<<"hydrophobic", "hydrophobic">>, <<"hydrophobic", "polar">>,
     <<"polar", "hydrophobic">>}

Matrices == UNION {[D -> Weights] : D \in SUBSET MatrixKeys}

----------------------------------------------------------------------------
(* alignment.py *)

Translate(mol_pos, offset) ==
    <<mol_pos[1] + offset[1], mol_pos[2] + offset[2], mol_pos[3] + offset[3]>>

\* lines 14-19: what one overlapping voxel pair adds to the raw sum
PairContributionNoReverse(matrix, mol_type, cav_type) ==
    IF <<mol_type, cav_type>> \in DOMAIN matrix
    THEN matrix[<<mol_type, cav_type>>]
    ELSE 0

PairContribution(matrix, mol_type, cav_type) ==
    LET pair == <<mol_type, cav_type>>
        reverse_pair == <<cav_type, mol_type>>
    IN  IF pair \in DOMAIN matrix THEN matrix[pair]
        ELSE IF reverse_pair \in DOMAIN matrix THEN matrix[reverse_pair]
        ELSE 0

RECURSIVE ScoreLoopKnownPairs(_, _, _, _, _, _)
ScoreLoopKnownPairs(cavity, molecule, offset, matrix, i, acc) ==
    IF i > Len(molecule) THEN acc
    ELSE
        LET mol_voxel == molecule[i]
            cavity_pos == Translate(mol_voxel.position, offset)
        IN  IF cavity_pos \in Keys(cavity)
            THEN LET cavity_voxel == Lookup(cavity, cavity_pos)
                     pair == <<mol_voxel.property_type,
                               cavity_voxel.property_type>>
                     reverse_pair == <<cavity_voxel.property_type,
                                       mol_voxel.property_type>>
                     known == pair \in DOMAIN matrix
                              \/ reverse_pair \in DOMAIN matrix
                 IN  ScoreLoopKnownPairs(cavity, molecule, offset, matrix,
                        i + 1,
                        [score |-> acc.score
                                   + PairContribution(matrix,
                                        mol_voxel.property_type,
                                        cavity_voxel.property_type),
                         overlap_count |-> acc.overlap_count
                                           + IF known THEN 1 ELSE 0])
            ELSE ScoreLoopKnownPairs(cavity, molecule, offset, matrix, i + 1,
                                     acc)

\* lines 10-20: the loop over molecule_grid.items(), from item i on
RECURSIVE ScoreLoop(_, _, _, _, _, _)
ScoreLoop(cavity, molecule, offset, matrix, i, acc) ==
    IF i > Len(molecule) THEN acc
    ELSE
        LET mol_voxel == molecule[i]
            cavity_pos == Translate(mol_voxel.position, offset)
        IN  IF cavity_pos \in Keys(cavity)
            THEN LET cavity_voxel == Lookup(cavity, cavity_pos)
                 IN  ScoreLoop(cavity, molecule, offset, matrix, i + 1,
                        [score |-> acc.score
                                   + PairContribution(matrix,
                                        mol_voxel.property_type,
                                        cavity_voxel.property_type),
                         overlap_count |-> acc.overlap_count + 1])
            ELSE ScoreLoop(cavity, molecule, offset, matrix, i + 1, acc)

\* lines 22-23
NormaliseByCount(score, overlap_count) ==
    IF overlap_count > 0 THEN RoundDiv(score, overlap_count) ELSE score

Normalise(score, overlap_count) ==
    IF overlap_count > 0
    THEN FMul(RoundDiv(score, overlap_count), FSqrt(overlap_count))
    ELSE score

calculate_placement_score(cavity, molecule, offset, matrix) ==
    LET acc == ScoreLoop(cavity, molecule, offset, matrix, 1,
                         [score |-> 0, overlap_count |-> 0])
    IN  Normalise(acc.score, acc.overlap_count)

\* line 27
KeyListButLast(grid) == [i \in 1..(Len(grid) - 1) |-> grid[i].position]

KeyList(grid) == [i \in 1..Len(grid) |-> grid[i].position]

FNaN == [k |-> "nan", v |-> 0]
NoVoxel == [position |-> <<>>, property_type |-> "", accessibility |-> FNaN,
            flexibility |-> FNaN]
NoMessage == [field |-> "", low |-> FNaN, high |-> FNaN, got |-> FNaN]
NoOutcome == [k |-> "none", voxel |-> NoVoxel, message |-> NoMessage]

NoMetadata == [grid_spacing |-> 0, max_translation |-> 0, gap_penalty |-> 0,
               cavity_voxels |-> 0, molecule_voxels |-> 0]
NoAlign == [k |-> "none", score |-> NegInf, translation |-> <<>>,
            cavity_grid |-> <<>>, molecule_grid |-> <<>>,
            compatibility_matrix |-> <<>>, metadata |-> NoMetadata]
NoMultiple == [pc |-> "idle", i |-> 1, results |-> <<>>, returned |-> <<>>,
               exception |-> ""]

NoDockingResult == [score |-> NegInf, translation |-> <<>>,
                    cavity_grid |-> <<>>, molecule_grid |-> <<>>,
                    compatibility_matrix |-> <<>>]
NoAnalysis == [total_score |-> NegInf, translation |-> <<>>,
               interactions |-> <<>>, interaction_counts |-> <<>>,
               residue_contributions |-> <<>>]
NoFanOut == [pc |-> "idle", score |-> NegInf, offset |-> <<>>]
NoGapSearch == [pc |-> "idle", run |-> 1, i |-> 1, best_score |-> DblZero,
                best_offset |-> <<>>, started |-> FALSE, results |-> <<>>]

NoIterator == [indices |-> <<>>, exhausted |-> TRUE]
NoConformation == [position |-> <<>>, torsion_angles |-> <<>>,
                   index |-> <<>>, indexed |-> FALSE]

\* the inputs and objects of conformers.py, for the runs that do not use it
NoConformers ==
    /\ n_bonds = 0
    /\ torsion_steps = 6
    /\ conf_a = NoConformation
    /\ conf_b = NoConformation

\* the objects of adaptive.py, for the runs that do not use it
NoAdaptive ==
    /\ base_weights = <<>>
    /\ weights = <<>>
    /\ known_binders = <<>>
    /\ known_activities = <<>>
    /\ weights_is_base = TRUE
    /\ updates_left = 0

\* no Voxel construction asked for
NoVoxels == voxel_args = NoVoxel

\* no SpatialDocking instance made
NoDocking ==
    /\ docker = [grid_spacing |-> Scale \div 2, max_translation |-> 10,
                 gap_penalty |-> -Scale]
    /\ matrix_is_none = FALSE
    /\ molecules = <<>>

\* no DockingResult to analyse
NoAnalysed == docking_result = NoDockingResult

\* no pair of gap penalties to compare
NoGaps == gap_pair = <<DblZero, DblZero>>

NoExtensions ==
    NoConformers /\ NoAdaptive /\ NoVoxels /\ NoDocking /\ NoAnalysed /\ NoGaps

\* lines 27-29: entry of spatial_alignment
CallKeepingBestScore ==
    /\ pc \in {"idle", "done"}
    /\ pc' = "loop"
    /\ cavity_positions' = KeyList(cavity_grid)
    /\ best_offset' = <<0, 0, 0>>
    /\ idx' = 1
    /\ evaluated' = <<>>
    /\ prev_result' = result
    /\ UNCHANGED <<inputs, result, scored, best_score, pareto_vars,
                   boltzmann_vars, extension_vars>>

Call ==
    /\ pc \in {"idle", "done"}
    /\ pc' = "loop"
    /\ cavity_positions' = KeyList(cavity_grid)
    /\ best_score' = NegInf
    /\ best_offset' = <<0, 0, 0>>
    /\ idx' = 1
    /\ evaluated' = <<>>
    /\ prev_result' = result
    /\ UNCHANGED <<inputs, result, scored, pareto_vars, boltzmann_vars, extension_vars>>

\* line 33
CandidateScoreNoGap(placement_score, gap) == Fin(placement_score)

CandidateScore(placement_score, gap) == Fin(placement_score + gap)

\* line 34
BetterOrEqual(score, best) == ~FGt(best, score)

Better(score, best) == FGt(score, best)

\* lines 31-36: one iteration of the loop
Iterate ==
    /\ pc = "loop"
    /\ idx <= Len(cavity_positions)
    /\ LET cavity_pos == cavity_positions[idx]
           placement_score ==
               calculate_placement_score(cavity_grid, molecule_grid,
                                         cavity_pos, compatibility_matrix)
           score == CandidateScore(placement_score, gap_penalty)
       IN  /\ IF Better(score, best_score)
              THEN /\ best_score' = score
                   /\ best_offset' = cavity_pos
              ELSE UNCHANGED <<best_score, best_offset>>
           /\ evaluated' = Append(evaluated,
                                  [offset |-> cavity_pos,
                                   placement_score |-> placement_score])
    /\ idx' = idx + 1
    /\ UNCHANGED <<inputs, pc, cavity_positions, result, prev_result, scored,
                   pareto_vars, boltzmann_vars, extension_vars>>

\* line 38
Return ==
    /\ pc = "loop"
    /\ idx > Len(cavity_positions)
    /\ pc' = "done"
    /\ result' = [score |-> best_score, offset |-> best_offset,
                  outcome |-> "returned"]
    /\ UNCHANGED <<inputs, cavity_positions, idx, best_score, best_offset,
                   evaluated, prev_result, scored, pareto_vars,
                   boltzmann_vars, extension_vars>>

\* a direct call of calculate_placement_score (core.py score_pose)
ScorePose ==
    /\ pc = "idle"
    /\ ~scored.called
    /\ \E offset \in ScoreOffsets :
          LET acc == ScoreLoop(cavity_grid, molecule_grid, offset,
                               compatibility_matrix, 1,
                               [score |-> 0, overlap_count |-> 0])
          IN  scored' = [offset |-> offset,
                         score |-> calculate_placement_score(
                                       cavity_grid, molecule_grid, offset,
                                       compatibility_matrix),
                         called |-> TRUE,
                         raw |-> acc.score,
                         overlap_count |-> acc.overlap_count]
    /\ UNCHANGED <<inputs, pc, cavity_positions, idx, best_score, best_offset,
                   evaluated, result, prev_result, pareto_vars,
                   boltzmann_vars, extension_vars>>

Idle ==
    /\ pc = "idle"
    /\ scored = NotScored
    /\ cavity_positions = <<>>
    /\ idx = 1
    /\ best_score = NegInf
    /\ best_offset = <<0, 0, 0>>
    /\ evaluated = <<>>
    /\ result = NoResult
    /\ prev_result = NoResult
    /\ all_solutions = <<>>
    /\ pareto_frontier = <<>>
    /\ boltzmann_weights = <<>>
    /\ Z = DblZero
    /\ probabilities = <<>>
    /\ angles = <<>>
    /\ product_it = NoIterator
    /\ torsion_states = <<>>
    /\ initial = <<>>
    /\ trials = <<>>
    /\ minimize_result = <<>>
    /\ returned = <<>>
    /\ voxel_outcome = NoOutcome
    /\ align_result = NoAlign
    /\ multiple = NoMultiple
    /\ scoring_calls = <<>>
    /\ analysis = NoAnalysis
    /\ worker_scores = <<>>
    /\ fanout = NoFanOut
    /\ gap_search = NoGapSearch

NoObjectives == [name \in {} |-> <<>>]

Init ==
    /\ cavity_grid \in Grids(MaxCavity)
    /\ molecule_grid \in SortedGrids(MaxMolecule)
    /\ compatibility_matrix \in Matrices
    /\ gap_penalty \in GapPenalties
    /\ objectives = NoObjectives
    /\ all_scores = <<>>
    /\ temperature = 300
    /\ NoExtensions
    /\ Idle

Next == Call \/ Iterate \/ Return

Spec == Init /\ [][Next]_vars

InitScore ==
    /\ cavity_grid \in Grids(MaxCavity)
    /\ molecule_grid \in Grids(MaxMolecule)
    /\ compatibility_matrix \in Matrices
    /\ gap_penalty = 0
    /\ objectives = NoObjectives
    /\ all_scores = <<>>
    /\ temperature = 300
    /\ NoExtensions
    /\ Idle

NextScore == ScorePose

SpecScore == InitScore /\ [][NextScore]_vars

----------------------------------------------------------------------------
(* pareto.py *)

\* line 14: other_scores dominates scores
DominatesOrEquals(other_scores, scores) ==
    \A k \in DOMAIN scores : other_scores[k] >= scores[k]

Dominates(other_scores, scores) ==
    /\ \A k \in DOMAIN scores : other_scores[k] >= scores[k]
    /\ \E k \in DOMAIN scores : other_scores[k] > scores[k]

\* line 9: every objective applied to the position
Evaluate(position) ==
    [name \in DOMAIN objectives |-> objectives[name][position]]

\* lines 5-6: entry of pareto_optimal_docking
ParetoCall ==
    /\ pc = "idle"
    /\ pc' = "pareto"
    /\ pareto_frontier' = <<>>
    /\ all_solutions' = <<>>
    /\ idx' = 1
    /\ UNCHANGED <<inputs, alignment_vars, objectives, boltzmann_vars, extension_vars>>

\* lines 8-19: one iteration of the loop over the cavity grid's keys
ParetoStep ==
    /\ pc = "pareto"
    /\ idx <= Len(cavity_grid)
    /\ LET position == cavity_grid[idx].position
           scores == Evaluate(position)
           solution == [position |-> position, scores |-> scores]
           solutions == Append(all_solutions, solution)
           is_dominated ==
               \E j \in 1..(Len(solutions) - 1) :
                   Dominates(solutions[j].scores, scores)
       IN  /\ all_solutions' = solutions
           /\ pareto_frontier' =
                 IF is_dominated THEN pareto_frontier
                 ELSE Append(pareto_frontier, solution)
    /\ idx' = idx + 1
    /\ UNCHANGED <<inputs, pc, alignment_vars, objectives, boltzmann_vars, extension_vars>>

\* line 21
ParetoReturn ==
    /\ pc = "pareto"
    /\ idx > Len(cavity_grid)
    /\ pc' = "pareto_done"
    /\ UNCHANGED <<inputs, idx, alignment_vars, pareto_vars, boltzmann_vars, extension_vars>>

\* the cavity grids of n voxels at positions 0 .. n-1 of the x axis
LineGrid(n) ==
    [i \in 1..n |-> [position |-> <<i - 1, 0, 0>>,
                     property_type |-> "hydrophobic"]]

InitPareto ==
    /\ \E n \in 0..MaxParetoPositions : cavity_grid = LineGrid(n)
    /\ molecule_grid = <<>>
    /\ compatibility_matrix \in [{} -> Weights]
    /\ gap_penalty = 0
    /\ \E names \in SUBSET ObjectiveNames :
          objectives \in [names -> [Keys(cavity_grid) -> ObjectiveValues]]
    /\ all_scores = <<>>
    /\ temperature = 300
    /\ NoExtensions
    /\ Idle

NextPareto == ParetoCall \/ ParetoStep \/ ParetoReturn

SpecPareto == InitPareto /\ [][NextPareto]_vars

----------------------------------------------------------------------------
(* boltzmann.py *)

\* lines 7, 13-14: -energy / kT in multiples of ln 2.  A score s of the model
\* stands for s * 0.0019872041 * ln 2, so that -energy / kT = (s / T) * ln 2
ExponentArgument(score, T) == LET energy == -score IN (-energy) \div T

\* lines 7-10: entry of boltzmann_ensemble_docking
BoltzmannCall ==
    /\ pc = "idle"
    /\ pc' = "boltzmann"
    /\ boltzmann_weights' = <<>>
    /\ Z' = DblZero
    /\ idx' = 1
    /\ UNCHANGED <<inputs, alignment_vars, pareto_vars, all_scores,
                   temperature, probabilities, extension_vars>>

\* lines 12-16: one iteration of the loop over all_scores.items()
BoltzmannStep ==
    /\ pc = "boltzmann"
    /\ idx <= Len(all_scores)
    /\ LET position == all_scores[idx].position
           score == all_scores[idx].score
           weight == DblExp2(ExponentArgument(score, temperature))
       IN  /\ boltzmann_weights' =
                 Append(boltzmann_weights,
                        [position |-> position, weight |-> weight])
           /\ Z' = DblAdd(Z, weight)
    /\ idx' = idx + 1
    /\ UNCHANGED <<inputs, pc, alignment_vars, pareto_vars, all_scores,
                   temperature, probabilities, extension_vars>>

\* lines 18-19
BoltzmannReturn ==
    /\ pc = "boltzmann"
    /\ idx > Len(all_scores)
    /\ probabilities' =
          [i \in 1..Len(boltzmann_weights) |->
              [position |-> boltzmann_weights[i].position,
               probability |-> DblDiv(boltzmann_weights[i].weight, Z)]]
    /\ pc' = "boltzmann_done"
    /\ UNCHANGED <<inputs, idx, alignment_vars, pareto_vars, all_scores,
                   temperature, boltzmann_weights, Z, extension_vars>>

InitBoltzmann ==
    /\ cavity_grid = <<>>
    /\ molecule_grid = <<>>
    /\ compatibility_matrix \in [{} -> Weights]
    /\ gap_penalty = 0
    /\ objectives = NoObjectives
    /\ temperature \in Temperatures
    /\ \E n \in 0..MaxLandscape :
          \E scores \in [1..n -> LandscapeScores] :
              all_scores = [i \in 1..n |-> [position |-> <<i - 1, 0, 0>>,
                                           score |-> scores[i]]]
    /\ NoExtensions
    /\ Idle

NextBoltzmann == BoltzmannCall \/ BoltzmannStep \/ BoltzmannReturn

SpecBoltzmann == InitBoltzmann /\ [][NextBoltzmann]_vars

----------------------------------------------------------------------------
(* conformers.py *)

\* the inputs of the search functions, for the runs that do not use them
NoSearch ==
    /\ cavity_grid = <<>>
    /\ molecule_grid = <<>>
    /\ compatibility_matrix \in [{} -> Weights]
    /\ gap_penalty = 0
    /\ objectives = NoObjectives
    /\ all_scores = <<>>
    /\ temperature = 300

\* line 7: [i * (360 / torsion_steps) for i in range(torsion_steps)],
\* the quotient a float and the product rounded once more
AnglesFromOne(steps) ==
    [i \in 1..steps |-> DblTimesInt(i, DblRatio(360, steps))]

Angles(steps) ==
    [i \in 1..steps |-> DblTimesInt(i - 1, DblRatio(360, steps))]

\* itertools.product(angles, repeat=n): the tuple the iterator is at
ProductTuple(pool, indices) ==
    [j \in 1..Len(indices) |-> pool[indices[j]]]

\* itertools.product moves like an odometer, the rightmost position fastest
ProductAdvance(pool, indices) ==
    LET movable == {j \in 1..Len(indices) : indices[j] < Len(pool)}
    IN  IF movable = {}
        THEN [indices |-> indices, exhausted |-> TRUE]
        ELSE LET j == MaxOf(movable)
             IN  [indices |-> [k \in 1..Len(indices) |->
                                  IF k < j THEN indices[k]
                                  ELSE IF k = j THEN indices[j] + 1
                                  ELSE 1],
                  exhausted |-> FALSE]

\* lines 6-8: entry of generate_torsion_states, the iterator made
GenerateCall ==
    /\ pc = "idle"
    /\ pc' = "torsion"
    /\ angles' = Angles(torsion_steps)
    /\ product_it' = [indices |-> [j \in 1..n_bonds |-> 1],
                      exhausted |-> n_bonds > 0 /\ torsion_steps = 0]
    /\ torsion_states' = <<>>
    /\ UNCHANGED <<outside_conformers, idx, n_bonds, torsion_steps, conf_a, conf_b>>

\* line 8: list(...) takes the next tuple of the iterator
GenerateStep ==
    /\ pc = "torsion"
    /\ ~product_it.exhausted
    /\ torsion_states' = Append(torsion_states,
                                ProductTuple(angles, product_it.indices))
    /\ product_it' = ProductAdvance(angles, product_it.indices)
    /\ UNCHANGED <<outside_conformers, pc, idx, n_bonds, torsion_steps, angles,
                   conf_a, conf_b,
          base_weights, weights, known_binders, known_activities, initial,
          trials, minimize_result, returned>>

\* line 9
GenerateReturn ==
    /\ pc = "torsion"
    /\ product_it.exhausted
    /\ pc' = "torsion_done"
    /\ UNCHANGED <<outside_conformers, idx, conformer_vars>>

RECURSIVE Power(_, _)
Power(b, e) == IF e = 0 THEN 1 ELSE b * Power(b, e - 1)

InitTorsion ==
    /\ NoSearch
    /\ n_bonds \in 0..MaxBonds
    /\ torsion_steps \in TorsionSteps
    /\ Power(torsion_steps, n_bonds) <= MaxStates
    /\ conf_a = NoConformation
    /\ conf_b = NoConformation
    /\ NoAdaptive
    /\ NoVoxels
    /\ NoDocking
    /\ NoAnalysed
    /\ NoGaps
    /\ Idle

NextTorsion == GenerateCall \/ GenerateStep \/ GenerateReturn

SpecTorsion == InitTorsion /\ [][NextTorsion]_vars

\* ConformationalDockingState.__init__, lines 12-14
Conformation(position, torsion_angles) ==
    [position |-> position, torsion_angles |-> torsion_angles,
     index |-> <<>>, indexed |-> FALSE]

\* ConformationalDockingState.index, lines 16-17
IndexAnglesOnly(state) == state.torsion_angles

index(state) == state.position \o state.torsion_angles

IndexA ==
    /\ pc = "idle"
    /\ ~conf_a.indexed
    /\ conf_a' = [conf_a EXCEPT !.index = index(conf_a), !.indexed = TRUE]
    /\ UNCHANGED <<outside_conformers, pc, idx, n_bonds, torsion_steps, angles,
                   product_it, torsion_states, conf_b>>

IndexB ==
    /\ pc = "idle"
    /\ ~conf_b.indexed
    /\ conf_b' = [conf_b EXCEPT !.index = index(conf_b), !.indexed = TRUE]
    /\ UNCHANGED <<outside_conformers, pc, idx, n_bonds, torsion_steps, angles,
                   product_it, torsion_states, conf_a>>

\* the tuples a caller may pass as position: the claim is about those of
\* three components, the constructor takes any
IndexPositions == Positions \cup {<<0, 0>>, <<1, 0>>}

TorsionAngleLists ==
    UNION {[1..n -> TorsionAngleValues] : n \in 0..MaxTorsionAngles}

InitIndex ==
    /\ NoSearch
    /\ n_bonds = 0
    /\ torsion_steps = 6
    /\ \E p \in IndexPositions, t \in TorsionAngleLists :
          conf_a = Conformation(p, t)
    /\ \E p \in IndexPositions, t \in TorsionAngleLists :
          conf_b = Conformation(p, t)
    /\ NoAdaptive
    /\ NoVoxels
    /\ NoDocking
    /\ NoAnalysed
    /\ NoGaps
    /\ Idle

NextIndex == IndexA \/ IndexB

SpecIndex == InitIndex /\ [][NextIndex]_vars

----------------------------------------------------------------------------
(* adaptive.py *)

\* dict(zip(keys, w)): the keys in their order, each with the component of
\* w at its place; zip stops at the shorter of the two
ZipReversed(keys, w) ==
    LET n == IF Len(keys) < Len(w) THEN Len(keys) ELSE Len(w)
    IN  [i \in 1..n |-> [key |-> keys[Len(keys) + 1 - i], value |-> w[i]]]

Zip(keys, w) ==
    LET n == IF Len(keys) < Len(w) THEN Len(keys) ELSE Len(w)
    IN  [i \in 1..n |-> [key |-> keys[i], value |-> w[i]]]

\* dict.keys() and dict.values(), in insertion order
DictKeys(mapping) == [i \in 1..Len(mapping) |-> mapping[i].key]
DictValues(mapping) == [i \in 1..Len(mapping) |-> mapping[i].value]

RECURSIVE SumSeq(_)
SumSeq(s) == IF s = <<>> THEN 0 ELSE Head(s) + SumSeq(Tail(s))

\* the scoring callback the caller passes: a weighted sum of the terms
\* binder b has, one term per weight
scoring_function(binder, mapping) ==
    SumSeq([i \in 1..Len(mapping) |-> mapping[i].value * binder[mapping[i].key]])

CorrNaN == [k |-> "nan", num |-> 0, var_x |-> 0, var_y |-> 0]

\* np.corrcoef(x, y)[0, 1]: num / sqrt(var_x * var_y), nan when a variance
\* is zero
corrcoef(x, y) ==
    LET n == Len(x)
        sx == SumSeq(x)
        sy == SumSeq(y)
        num == n * SumSeq([i \in 1..n |-> x[i] * y[i]]) - sx * sy
        var_x == n * SumSeq([i \in 1..n |-> x[i] * x[i]]) - sx * sx
        var_y == n * SumSeq([i \in 1..n |-> y[i] * y[i]]) - sy * sy
    IN  IF var_x = 0 \/ var_y = 0 THEN CorrNaN
        ELSE [k |-> "fin", num |-> num, var_x |-> var_x, var_y |-> var_y]

\* -corr
Negate(corr) == [corr EXCEPT !.num = -corr.num]

\* lines 13 and 20: self.weights = dict(...) binds the attribute to a new
\* object; the object it was bound to, the caller's mapping until the first
\* such assignment, is not written
UpdateInPlace(caller, is_base, mapping) ==
    [caller |-> IF is_base THEN mapping ELSE caller,
     weights |-> mapping,
     is_base |-> is_base]

Rebind(caller, is_base, mapping) ==
    [caller |-> caller, weights |-> mapping, is_base |-> FALSE]

\* line 14: the self.weights that scoring_function is given, read after
\* line 13 has bound it
StoredBeforeWrite(before, mapping) == before

StoredWhenScoring(before, mapping) == mapping

\* line 18
UpdateCall ==
    /\ pc \in {"idle", "adaptive_done"}
    /\ updates_left > 0
    /\ updates_left' = updates_left - 1
    /\ pc' = "minimize"
    /\ initial' = DictValues(weights)
    /\ trials' = <<>>
    /\ scoring_calls' = <<>>
    /\ UNCHANGED <<outside_adaptive, idx, base_weights, weights, known_binders,
                   known_activities, minimize_result, returned,
                   weights_is_base>>

\* lines 12-16: the optimizer calls loss(w); the first vector it tries is
\* the initial one
Loss ==
    /\ pc = "minimize"
    /\ Len(trials) < MaxTrials
    /\ \E w \in IF trials = <<>> THEN {initial}
                 ELSE [1..Len(initial) -> TrialValues] :
          /\ Len(w) = Len(initial)
          /\ LET mapping == Zip(DictKeys(weights), w)
                 bound == Rebind(base_weights, weights_is_base, mapping)
                 passed == StoredWhenScoring(weights, bound.weights)
                 predicted == [b \in 1..Len(known_binders) |->
                                  scoring_function(known_binders[b], passed)]
                 corr == corrcoef(predicted, known_activities)
             IN  /\ weights' = bound.weights
                 /\ base_weights' = bound.caller
                 /\ weights_is_base' = bound.is_base
                 /\ scoring_calls' =
                       scoring_calls
                       \o [b \in 1..Len(known_binders) |->
                              [trial |-> Len(trials) + 1, binder |-> b,
                               weights |-> passed]]
                 /\ trials' = Append(trials, [w |-> w,
                                              weights |-> bound.weights,
                                              predicted |-> predicted,
                                              loss |-> Negate(corr)])
    /\ UNCHANGED <<outside_adaptive, pc, idx, known_binders,
                   known_activities, initial, minimize_result, returned,
                   updates_left>>

\* lines 19-21: minimize returns one of the vectors it tried
UpdateReturn ==
    /\ pc = "minimize"
    /\ \E t \in 1..Len(trials) :
          LET bound == Rebind(base_weights, weights_is_base,
                              Zip(DictKeys(weights), trials[t].w))
          IN  /\ minimize_result' = trials[t].w
              /\ weights' = bound.weights
              /\ base_weights' = bound.caller
              /\ weights_is_base' = bound.is_base
              /\ returned' = bound.weights
    /\ pc' = "adaptive_done"
    /\ UNCHANGED <<outside_adaptive, idx, known_binders, known_activities,
                   initial, trials, scoring_calls, updates_left>>

\* the key orders a mapping of n weights can have
RECURSIVE KeyOrders(_)
KeyOrders(n) ==
    IF n = 0 THEN {<<>>}
    ELSE {Append(ks, name) : ks \in KeyOrders(n - 1), name \in WeightNames}

DistinctKeys(ks) == \A i, j \in 1..Len(ks) : ks[i] = ks[j] => i = j

InitAdaptive ==
    /\ NoSearch
    /\ NoConformers
    /\ NoVoxels
    /\ NoDocking
    /\ NoAnalysed
    /\ NoGaps
    /\ \E n \in 1..MaxWeights :
          \E ks \in {k \in KeyOrders(n) : DistinctKeys(k)} :
              base_weights = [i \in 1..n |-> [key |-> ks[i],
                                              value |-> BaseValue[ks[i]]]]
    /\ weights = base_weights
    /\ weights_is_base = TRUE
    /\ updates_left = 1
    /\ \E n \in 2..MaxBinders : known_binders \in [1..n -> BinderProfiles]
    /\ known_activities = [b \in 1..Len(known_binders) |-> b]
    /\ Idle

NextAdaptive == UpdateCall \/ Loss \/ UpdateReturn

SpecAdaptive == InitAdaptive /\ [][NextAdaptive]_vars

\* update_weights called again and again on one tuner
InitRepeat ==
    /\ NoSearch
    /\ NoConformers
    /\ NoVoxels
    /\ NoDocking
    /\ NoAnalysed
    /\ NoGaps
    /\ \E n \in 1..MaxWeights :
          \E ks \in {k \in KeyOrders(n) : DistinctKeys(k)} :
              base_weights = [i \in 1..n |-> [key |-> ks[i],
                                              value |-> BaseValue[ks[i]]]]
    /\ weights = base_weights
    /\ weights_is_base = TRUE
    /\ updates_left = MaxUpdates
    /\ known_binders =
          [b \in 1..2 |->
              [name \in WeightNames |->
                  IF b = 2 \/ name = "hydrophobic" THEN 1 ELSE 0]]
    /\ known_activities = [b \in 1..Len(known_binders) |-> b]
    /\ Idle

SpecRepeat == InitRepeat /\ [][NextAdaptive]_vars

----------------------------------------------------------------------------
(* core.py: Voxel *)

\* a <= b on floats; a comparison with nan is false
FLe(a, b) == a.k = "fin" /\ b.k = "fin" /\ a.v <= b.v

\* lines 43 and 45: 0.0 <= x <= 1.0
InRangeOpenBelow(x) == FLe(Fin(0), x) /\ x # Fin(0) /\ FLe(x, Fin(Scale))

InRange(x) == FLe(Fin(0), x) /\ FLe(x, Fin(Scale))

\* the text of the ValueError: the field, the two bounds and the value
Message(field, got) ==
    [field |-> field, low |-> Fin(0), high |-> Fin(Scale), got |-> got]

\* Voxel(position, property_type, accessibility, flexibility): the fields
\* are stored, then __post_init__ checks them, lines 41-46
NewVoxel ==
    /\ pc = "idle"
    /\ voxel_outcome = NoOutcome
    /\ voxel_outcome' =
          IF ~InRange(voxel_args.accessibility)
          THEN [k |-> "ValueError", voxel |-> NoVoxel,
                message |-> Message("Accessibility", voxel_args.accessibility)]
          ELSE IF ~InRange(voxel_args.flexibility)
          THEN [k |-> "ValueError", voxel |-> NoVoxel,
                message |-> Message("Flexibility", voxel_args.flexibility)]
          ELSE [k |-> "Voxel", voxel |-> voxel_args, message |-> NoMessage]
    /\ UNCHANGED <<outside_voxels, pc, idx, voxel_args>>

InitVoxel ==
    /\ NoSearch
    /\ NoConformers
    /\ NoAdaptive
    /\ NoDocking
    /\ NoAnalysed
    /\ NoGaps
    /\ \E p \in Positions, t \in PropTypes, a \in FieldValues, f \in FieldValues :
          voxel_args = [position |-> p, property_type |-> t,
                        accessibility |-> a, flexibility |-> f]
    /\ Idle

NextVoxel == NewVoxel

SpecVoxel == InitVoxel /\ [][NextVoxel]_vars

----------------------------------------------------------------------------
(* core.py: SpatialDocking *)

\* scoring.py lines 4-21
default_compatibility_matrix ==
    (<<"hydrophobic", "hydrophobic">> :> 2 * Scale)
    @@ (<<"hydrophobic", "hydrophilic">> :> -3 * Scale)
    @@ (<<"hydrophobic", "polar">> :> -Scale)
    @@ (<<"hydrophobic", "empty">> :> -(Scale \div 2))
    @@ (<<"hydrophilic", "hydrophilic">> :> (3 * Scale) \div 2)
    @@ (<<"hydrophilic", "polar">> :> Scale)
    @@ (<<"hydrophilic", "charged_pos">> :> Scale \div 2)
    @@ (<<"hydrophilic", "charged_neg">> :> Scale \div 2)
    @@ (<<"polar", "polar">> :> (3 * Scale) \div 2)
    @@ (<<"polar", "charged_pos">> :> Scale)
    @@ (<<"polar", "charged_neg">> :> Scale)
    @@ (<<"charged_pos", "charged_neg">> :> 3 * Scale)
    @@ (<<"charged_pos", "charged_pos">> :> -4 * Scale)
    @@ (<<"charged_neg", "charged_neg">> :> -4 * Scale)
    @@ (<<"empty", "empty">> :> 0)

\* alignment.py lines 31-36, the loop of spatial_alignment from its i-th
\* cavity position on
RECURSIVE SearchFrom(_, _, _, _, _, _, _)
SearchFrom(cavity, molecule, matrix, gap, positions, i, best) ==
    IF i > Len(positions) THEN best
    ELSE LET score == CandidateScore(
                          calculate_placement_score(cavity, molecule,
                                                    positions[i], matrix),
                          gap)
         IN  SearchFrom(cavity, molecule, matrix, gap, positions, i + 1,
                        IF Better(score, best.score)
                        THEN [score |-> score, offset |-> positions[i]]
                        ELSE best)

\* alignment.py lines 26-38, called and run to its return
spatial_alignment(cavity, molecule, matrix, gap) ==
    SearchFrom(cavity, molecule, matrix, gap, KeyList(cavity), 1,
               [score |-> NegInf, offset |-> <<0, 0, 0>>])

\* alignment.py line 26: the parameters of spatial_alignment
SpatialAlignmentParameters ==
    {"cavity_grid", "molecule_grid", "compatibility_matrix", "gap_penalty"}

\* core.py lines 128-133: the keywords align calls it with
AlignKeywords ==
    {"cavity_grid", "molecule_grid", "compatibility_matrix", "max_translation"}

\* alignment.py line 26: the default of the parameter gap_penalty
DefaultGapPenalty == -Scale

Raised(exception) ==
    [k |-> exception, score |-> NegInf, translation |-> <<>>,
     cavity_grid |-> <<>>, molecule_grid |-> <<>>,
     compatibility_matrix |-> <<>>, metadata |-> NoMetadata]

\* SpatialDocking.align, lines 104-154: what a call ends in.  A keyword the
\* callee has no parameter for is a TypeError at the call.
align(self, cavity, molecule, is_none, matrix) ==
    LET used == IF is_none THEN default_compatibility_matrix
                ELSE matrix
    IN  IF ~(AlignKeywords \subseteq SpatialAlignmentParameters)
        THEN Raised("TypeError")
        ELSE LET found == spatial_alignment(
                              cavity, molecule, used,
                              IF "gap_penalty" \in AlignKeywords
                              THEN self.gap_penalty ELSE DefaultGapPenalty)
             IN  [k |-> "DockingResult",
                  score |-> found.score,
                  translation |-> found.offset,
                  cavity_grid |-> cavity,
                  molecule_grid |-> molecule,
                  compatibility_matrix |-> used,
                  metadata |-> [grid_spacing |-> self.grid_spacing,
                                max_translation |-> self.max_translation,
                                gap_penalty |-> self.gap_penalty,
                                cavity_voxels |-> Len(cavity),
                                molecule_voxels |-> Len(molecule)]]

Align ==
    /\ align_result = NoAlign
    /\ align_result' = align(docker, cavity_grid, molecule_grid,
                             matrix_is_none, compatibility_matrix)
    /\ UNCHANGED <<outside_docking, pc, idx, docker, matrix_is_none, molecules,
                   multiple>>

\* results.sort(key=lambda x: x.score, reverse=True): stable, equal scores
\* keep their order
RECURSIVE SortByScore(_)
SortByScore(results) ==
    IF results = <<>> THEN <<>>
    ELSE LET n == Len(results)
             sorted == SortByScore(SubSeq(results, 1, n - 1))
             last == results[n]
             before == {i \in 1..Len(sorted) : ~FGt(last.score, sorted[i].score)}
             at == IF before = {} THEN 0 ELSE MaxOf(before)
         IN  SubSeq(sorted, 1, at) \o <<last>> \o SubSeq(sorted, at + 1, Len(sorted))

\* align_multiple, lines 172-173
AlignMultipleCall ==
    /\ multiple.pc = "idle"
    /\ multiple' = [multiple EXCEPT !.pc = "loop", !.i = 1, !.results = <<>>]
    /\ UNCHANGED <<outside_docking, pc, idx, docker, matrix_is_none, molecules,
                   align_result>>

\* lines 173-176: one molecule aligned; an exception of align leaves
\* align_multiple
AlignMultipleStep ==
    /\ multiple.pc = "loop"
    /\ multiple.i <= Len(molecules)
    /\ LET aligned == align(docker, cavity_grid, molecules[multiple.i],
                            matrix_is_none, compatibility_matrix)
       IN  multiple' =
              IF aligned.k = "DockingResult"
              THEN [multiple EXCEPT !.i = @ + 1,
                                    !.results = Append(@, aligned)]
              ELSE [multiple EXCEPT !.pc = "raised", !.exception = aligned.k]
    /\ UNCHANGED <<outside_docking, pc, idx, docker, matrix_is_none, molecules,
                   align_result>>

\* lines 178-184: the sort, the log line that reads results[0], the return
AlignMultipleReturn ==
    /\ multiple.pc = "loop"
    /\ multiple.i > Len(molecules)
    /\ LET sorted == SortByScore(multiple.results)
       IN  multiple' =
              IF sorted = <<>>
              THEN [multiple EXCEPT !.pc = "raised", !.results = sorted,
                                    !.exception = "IndexError"]
              ELSE [multiple EXCEPT !.pc = "returned", !.results = sorted,
                                    !.returned = sorted]
    /\ UNCHANGED <<outside_docking, pc, idx, docker, matrix_is_none, molecules,
                   align_result>>

\* the molecules of the runs of SpatialDocking
DockingMolecules ==
    {<<>>,
     <<[position |-> <<0, 0, 0>>, property_type |-> "hydrophobic"]>>,
     <<[position |-> <<0, 0, 0>>, property_type |-> "polar"]>>}

DockingMatrices ==
    {m \in Matrices : DOMAIN m = {<<"hydrophobic", "hydrophobic">>}}

InitDocking ==
    /\ cavity_grid \in SortedGrids(MaxCavity)
    /\ molecule_grid \in DockingMolecules
    /\ \/ matrix_is_none = TRUE /\ compatibility_matrix = <<>>
       \/ matrix_is_none = FALSE /\ compatibility_matrix \in DockingMatrices
    /\ gap_penalty = 0
    /\ objectives = NoObjectives
    /\ all_scores = <<>>
    /\ temperature = 300
    /\ NoConformers
    /\ NoAdaptive
    /\ NoVoxels
    /\ NoAnalysed
    /\ NoGaps
    /\ \E g \in GapPenalties :
          docker = [grid_spacing |-> Scale \div 2, max_translation |-> 10,
                    gap_penalty |-> g]
    /\ \E n \in 0..MaxMolecules : molecules \in [1..n -> DockingMolecules]
    /\ Idle

NextDocking ==
    Align \/ AlignMultipleCall \/ AlignMultipleStep \/ AlignMultipleReturn

SpecDocking == InitDocking /\ [][NextDocking]_vars

----------------------------------------------------------------------------
(* core.py: SpatialDocking.get_binding_site_analysis *)

\* dict.get(key, default): the value it returns and the dict as the call
\* leaves it
Setdefault(dict, key, default) ==
    [value |-> IF key \in DOMAIN dict THEN dict[key] ELSE default,
     dict |-> IF key \in DOMAIN dict THEN dict
              ELSE [k \in DOMAIN dict \cup {key} |->
                       IF k = key THEN default ELSE dict[k]]]

Get(dict, key, default) ==
    [value |-> IF key \in DOMAIN dict THEN dict[key] ELSE default,
     dict |-> dict]

\* line 282: counts[pair] = counts.get(pair, 0) + 1, on a dict that keeps
\* its insertion order
CountPair(counts, pair) ==
    IF \E i \in 1..Len(counts) : counts[i].pair = pair
    THEN [i \in 1..Len(counts) |->
             IF counts[i].pair = pair
             THEN [counts[i] EXCEPT !.count = @ + 1]
             ELSE counts[i]]
    ELSE Append(counts, [pair |-> pair, count |-> 1])

\* lines 252-258.  The grids of the result are present, so the check of
\* lines 249-250 passes.
AnalysisCall ==
    /\ pc = "idle"
    /\ analysis = NoAnalysis
    /\ docking_result # NoDockingResult
    /\ pc' = "analysis"
    /\ idx' = 1
    /\ analysis' = [total_score |-> docking_result.score,
                    translation |-> docking_result.translation,
                    interactions |-> <<>>,
                    interaction_counts |-> <<>>,
                    residue_contributions |-> <<>>]
    /\ UNCHANGED <<search_vars, first_extensions, fanout_vars, gap_vars,
                   docking_result>>

\* lines 261-287: one iteration of the loop over molecule_grid.items().
\* The voxels of the model have no nearby_residue, so lines 285-287 are
\* passed over.
AnalysisStep ==
    /\ pc = "analysis"
    /\ idx <= Len(docking_result.molecule_grid)
    /\ LET mol_voxel == docking_result.molecule_grid[idx]
           mol_pos == mol_voxel.position
           translated_pos == Translate(mol_pos, docking_result.translation)
       IN  IF translated_pos \in Keys(docking_result.cavity_grid)
           THEN LET cav_voxel == Lookup(docking_result.cavity_grid,
                                        translated_pos)
                    pair == <<mol_voxel.property_type, cav_voxel.property_type>>
                    got == Get(docking_result.compatibility_matrix, pair, 0)
                    interaction ==
                        [molecule_voxel |-> mol_pos,
                         cavity_voxel |-> translated_pos,
                         molecule_type |-> mol_voxel.property_type,
                         cavity_type |-> cav_voxel.property_type,
                         score |-> got.value]
                IN  /\ analysis' =
                          [analysis EXCEPT
                              !.interactions = Append(@, interaction),
                              !.interaction_counts = CountPair(@, pair)]
                    /\ docking_result' =
                          [docking_result EXCEPT
                              !.compatibility_matrix = got.dict]
           ELSE UNCHANGED <<analysis, docking_result>>
    /\ idx' = idx + 1
    /\ UNCHANGED <<search_vars, first_extensions, fanout_vars, gap_vars, pc>>

\* line 289
AnalysisReturn ==
    /\ pc = "analysis"
    /\ idx > Len(docking_result.molecule_grid)
    /\ pc' = "analysis_done"
    /\ UNCHANGED <<search_vars, first_extensions, later_vars, idx>>

\* a DockingResult for the pose at a translation, made as align makes one
ResultAt(cavity, molecule, matrix, translation) ==
    [score |-> CandidateScore(
                   calculate_placement_score(cavity, molecule, translation,
                                             matrix),
                   DefaultGapPenalty),
     translation |-> translation,
     cavity_grid |-> cavity,
     molecule_grid |-> molecule,
     compatibility_matrix |-> matrix]

InitAnalysis ==
    /\ NoSearch
    /\ NoConformers
    /\ NoAdaptive
    /\ NoVoxels
    /\ NoDocking
    /\ NoGaps
    /\ \E cavity \in SortedGrids(MaxCavity), molecule \in SortedGrids(MaxMolecule),
          matrix \in Matrices, translation \in ScoreOffsets :
          docking_result = ResultAt(cavity, molecule, matrix, translation)
    /\ Idle

NextAnalysis == AnalysisCall \/ AnalysisStep \/ AnalysisReturn

SpecAnalysis == InitAnalysis /\ [][NextAnalysis]_vars

\* the four operations that score and search, each on the same inputs
InitOperations ==
    /\ cavity_grid \in SortedGrids(MaxCavity)
    /\ molecule_grid \in SortedGrids(1)
    /\ compatibility_matrix \in DockingMatrices
    /\ gap_penalty \in GapPenalties
    /\ objectives \in [{"contacts"} -> [Keys(cavity_grid) -> {0, 1}]]
    /\ all_scores = <<>>
    /\ temperature = 300
    /\ NoConformers
    /\ NoAdaptive
    /\ NoVoxels
    /\ NoDocking
    /\ NoGaps
    /\ \E translation \in ScoreOffsets :
          docking_result = ResultAt(cavity_grid, molecule_grid,
                                    compatibility_matrix, translation)
    /\ Idle

NextOperations ==
    \/ Call \/ Iterate \/ Return
    \/ ScorePose
    \/ ParetoCall \/ ParetoStep \/ ParetoReturn
    \/ AnalysisCall \/ AnalysisStep \/ AnalysisReturn

SpecOperations == InitOperations /\ [][NextOperations]_vars

----------------------------------------------------------------------------
(* alignment.py: the loop of spatial_alignment with its candidates scored
   by workers *)

NotComputed == [done |-> FALSE, score |-> NegInf]

\* one slot per candidate offset, in the key order of the cavity grid
FanOutCall ==
    /\ pc = "idle"
    /\ pc' = "fanout"
    /\ cavity_positions' = KeyList(cavity_grid)
    /\ worker_scores' = [i \in 1..Len(cavity_grid) |-> NotComputed]
    /\ UNCHANGED <<inputs, idx, best_score, best_offset, evaluated, result,
                   prev_result, scored, pareto_vars, boltzmann_vars,
                   first_extensions, analysis_vars, gap_vars, fanout>>

\* lines 32-33, for candidate i, by a worker of its own
Worker(i) ==
    /\ pc = "fanout"
    /\ ~worker_scores[i].done
    /\ worker_scores' =
          [worker_scores EXCEPT
              ![i] = [done |-> TRUE,
                      score |-> CandidateScore(
                                    calculate_placement_score(
                                        cavity_grid, molecule_grid,
                                        cavity_positions[i],
                                        compatibility_matrix),
                                    gap_penalty)]]
    /\ UNCHANGED <<search_vars, pc, idx, first_extensions, analysis_vars,
                   gap_vars, fanout>>

\* the maximum of the first i slots, the earliest of equal scores kept
RECURSIVE ReduceFirstWins(_, _, _)
ReduceFirstWins(scores, positions, i) ==
    IF i = 0 THEN [score |-> NegInf, offset |-> <<0, 0, 0>>]
    ELSE LET before == ReduceFirstWins(scores, positions, i - 1)
         IN  IF FGt(scores[i].score, before.score)
             THEN [score |-> scores[i].score, offset |-> positions[i]]
             ELSE before

\* the reduction, once every worker has finished
Reduce ==
    /\ pc = "fanout"
    /\ \A i \in 1..Len(worker_scores) : worker_scores[i].done
    /\ pc' = "fanout_done"
    /\ LET best == ReduceFirstWins(worker_scores, cavity_positions,
                                   Len(worker_scores))
       IN  fanout' = [pc |-> "reduced", score |-> best.score,
                      offset |-> best.offset]
    /\ UNCHANGED <<inputs, cavity_positions, idx, best_score, best_offset,
                   evaluated, result, prev_result, scored, pareto_vars,
                   boltzmann_vars, first_extensions, analysis_vars, gap_vars,
                   worker_scores>>

InitFanOut ==
    /\ cavity_grid \in Grids(MaxCavity)
    /\ molecule_grid \in SortedGrids(MaxMolecule)
    /\ compatibility_matrix \in DockingMatrices
    /\ gap_penalty \in GapPenalties
    /\ objectives = NoObjectives
    /\ all_scores = <<>>
    /\ temperature = 300
    /\ NoExtensions
    /\ Idle

NextFanOut ==
    \/ FanOutCall
    \/ \E i \in 1..Len(worker_scores) : Worker(i)
    \/ Reduce

SpecFanOut == InitFanOut /\ [][NextFanOut]_vars

----------------------------------------------------------------------------
(* Claims about alignment.py *)

Done == pc = "done"

RECURSIVE SumOver(_, _)
SumOver(S, f) ==
    IF S = {} THEN 0
    ELSE LET x == CHOOSE y \in S : TRUE
         IN  f[x] + SumOver(S \ {x}, f)

\* O: the molecule voxels whose translated position is a cavity key
Overlapping(cavity, molecule, offset) ==
    {i \in 1..Len(molecule) :
        Translate(molecule[i].position, offset) \in Keys(cavity)}

ReferenceContribution(cavity, molecule, offset, matrix) ==
    [i \in Overlapping(cavity, molecule, offset) |->
        LET mol_type == molecule[i].property_type
            cav_type == Lookup(cavity, Translate(molecule[i].position,
                                                 offset)).property_type
        IN  IF <<mol_type, cav_type>> \in DOMAIN matrix
            THEN matrix[<<mol_type, cav_type>>]
            ELSE IF <<cav_type, mol_type>> \in DOMAIN matrix
            THEN matrix[<<cav_type, mol_type>>]
            ELSE 0]

ReferenceScore(cavity, molecule, offset, matrix) ==
    LET O == Overlapping(cavity, molecule, offset)
        S == SumOver(O, ReferenceContribution(cavity, molecule, offset, matrix))
        n == Cardinality(O)
    IN  IF n >= 1 THEN FMul(RoundDiv(S, n), FSqrt(n)) ELSE 0

\* C1: every call of calculate_placement_score returns the reference value:
\* with O the molecule voxels translated onto a cavity key and S the sum over
\* O of the pair contributions, (S / |O|) * sqrt(|O|) when |O| >= 1, and
\* exactly 0 when |O| = 0.
C1_PlacementScoreIsReference ==
    scored.called =>
        scored.score = ReferenceScore(cavity_grid, molecule_grid,
                                      scored.offset, compatibility_matrix)

\* a call with two overlaps, one of them found only in the reversed order,
\* whose normalised score is not the raw sum
C1_Witness ==
    /\ scored.called
    /\ Cardinality(Overlapping(cavity_grid, molecule_grid, scored.offset)) = 2
    /\ \E i \in Overlapping(cavity_grid, molecule_grid, scored.offset) :
          LET mol_type == molecule_grid[i].property_type
              cav_type == Lookup(cavity_grid,
                                 Translate(molecule_grid[i].position,
                                           scored.offset)).property_type
          IN  /\ <<mol_type, cav_type>> \notin DOMAIN compatibility_matrix
              /\ <<cav_type, mol_type>> \in DOMAIN compatibility_matrix
    /\ scored.score = FMul(2 * Scale, FSqrt(2))

\* the score of the candidate at position i of the cavity's key order
ScoreAt(i) ==
    CandidateScore(
        calculate_placement_score(cavity_grid, molecule_grid,
                                  cavity_grid[i].position,
                                  compatibility_matrix),
        gap_penalty)

\* C2: on a non-empty cavity, spatial_alignment scores exactly the cavity
\* keys, each once and no other offset, and returns a cavity key whose score
\* is its placement score plus gap_penalty and is not exceeded by the score
\* of any cavity key.
C2_BestOverCavityKeys ==
    /\ pc = "loop" =>
          /\ Len(evaluated) = idx - 1
          /\ \A i \in 1..Len(evaluated) :
                evaluated[i].offset = cavity_grid[i].position
    /\ (Done /\ Len(cavity_grid) > 0) =>
          /\ [i \in 1..Len(evaluated) |-> evaluated[i].offset]
                = [i \in 1..Len(cavity_grid) |-> cavity_grid[i].position]
          /\ result.outcome = "returned"
          /\ result.offset \in Keys(cavity_grid)
          /\ \E i \in 1..Len(cavity_grid) :
                /\ cavity_grid[i].position = result.offset
                /\ result.score = ScoreAt(i)
          /\ \A i \in 1..Len(cavity_grid) : ~FGt(ScoreAt(i), result.score)

\* a finished search over two candidates of which the second is the best
C2_Witness ==
    /\ Done
    /\ Len(cavity_grid) = 2
    /\ result.offset = cavity_grid[2].position
    /\ FGt(ScoreAt(2), ScoreAt(1))

\* C3: of several cavity keys attaining the maximum, the one first in the
\* cavity's key order is returned.
C3_FirstOfTies ==
    (Done /\ Len(cavity_grid) > 0) =>
        \A i \in 1..Len(cavity_grid) :
            cavity_grid[i].position = result.offset =>
                \A j \in 1..(i - 1) : FGt(result.score, ScoreAt(j))

\* a finished search in which two keys tie for the maximum with an overlap
C3_Witness ==
    /\ Done
    /\ Len(cavity_grid) = 2
    /\ Len(molecule_grid) > 0
    /\ ScoreAt(1) = ScoreAt(2)
    /\ ScoreAt(1).v # gap_penalty
    /\ result.offset = cavity_grid[1].position

\* C4: a repeated invocation on the same cavity grid, molecule grid, matrix
\* and gap_penalty returns the same (score, offset) as the one before it.
C4_Deterministic ==
    (Done /\ prev_result.outcome # "none") => result = prev_result

\* a second invocation has finished, and its best offset is not the origin
C4_Witness ==
    /\ Done
    /\ prev_result.outcome = "returned"
    /\ result.offset # <<0, 0, 0>>
    /\ Len(cavity_grid) = 2

\* C5: for a pair (A, B) present in the matrix, an overlap of a molecule
\* voxel of type A with a cavity voxel of type B contributes what an overlap
\* of a molecule voxel of type B with a cavity voxel of type A contributes.
C5_SymmetricLookup ==
    scored.called =>
        \A i \in Overlapping(cavity_grid, molecule_grid, scored.offset) :
            LET A == molecule_grid[i].property_type
                B == Lookup(cavity_grid,
                            Translate(molecule_grid[i].position,
                                      scored.offset)).property_type
            IN  <<A, B>> \in DOMAIN compatibility_matrix =>
                    PairContribution(compatibility_matrix, A, B)
                        = PairContribution(compatibility_matrix, B, A)

\* C6: the search on an empty cavity grid fails with EmptyInputError; it
\* never returns negative infinity with the origin offset.
C6_EmptyCavityFails ==
    (Done /\ Len(cavity_grid) = 0) =>
        /\ result.outcome = "EmptyInputError"
        /\ ~(result.score = NegInf /\ result.offset = <<0, 0, 0>>)

\* C7: for an empty molecule grid and a non-empty cavity grid every
\* candidate's placement score is 0 and the search returns
\* (0 + gap_penalty, first cavity key), a score <= 0 whenever
\* gap_penalty <= 0.
C7_EmptyMolecule ==
    (Len(molecule_grid) = 0 /\ Len(cavity_grid) > 0) =>
        /\ \A i \in 1..Len(evaluated) : evaluated[i].placement_score = 0
        /\ Done =>
              /\ result.outcome = "returned"
              /\ result.score = Fin(0 + gap_penalty)
              /\ result.offset = cavity_grid[1].position
              /\ (gap_penalty <= 0 => result.score.v <= 0)

\* a finished search of an empty molecule over two cavity keys
C7_Witness ==
    /\ Done
    /\ Len(molecule_grid) = 0
    /\ Len(cavity_grid) = 2
    /\ Len(evaluated) = 2
    /\ gap_penalty <= 0
    /\ result.offset = cavity_grid[1].position

----------------------------------------------------------------------------
(* Claims about pareto.py *)

ParetoDone == pc = "pareto_done"

\* the score of objective k at the i-th cavity key
ObjectiveAt(i, k) == objectives[k][cavity_grid[i].position]

\* Q, the j-th evaluated position, dominates P, the i-th: Q >= P on every
\* objective and Q > P on at least one
PositionDominates(j, i) ==
    /\ \A k \in DOMAIN objectives : ObjectiveAt(j, k) >= ObjectiveAt(i, k)
    /\ \E k \in DOMAIN objectives : ObjectiveAt(j, k) > ObjectiveAt(i, k)

IndexOf(position) ==
    CHOOSE i \in 1..Len(cavity_grid) : cavity_grid[i].position = position

\* C8: no position returned by pareto_optimal_docking is dominated by any
\* other evaluated position, evaluated before or after it.
C8_ParetoValidity ==
    ParetoDone =>
        \A p \in 1..Len(pareto_frontier) :
            \A j \in 1..Len(cavity_grid) :
                ~PositionDominates(j, IndexOf(pareto_frontier[p].position))

\* C9: the result lists, in the cavity's key order, exactly the positions
\* that no earlier evaluated position dominates, each with its score for
\* every objective name; a position whose score vector equals an earlier
\* one is kept.
C9_NotDominatedByEarlier ==
    ParetoDone =>
        /\ \A p \in 1..Len(pareto_frontier) :
              /\ pareto_frontier[p].position \in Keys(cavity_grid)
              /\ DOMAIN pareto_frontier[p].scores = DOMAIN objectives
              /\ \A k \in DOMAIN objectives :
                    pareto_frontier[p].scores[k]
                        = ObjectiveAt(IndexOf(pareto_frontier[p].position), k)
        /\ \A p, q \in 1..Len(pareto_frontier) :
              p < q => IndexOf(pareto_frontier[p].position)
                          < IndexOf(pareto_frontier[q].position)
        /\ \A i \in 1..Len(cavity_grid) :
              (\E p \in 1..Len(pareto_frontier) :
                  pareto_frontier[p].position = cavity_grid[i].position)
              <=> ~\E j \in 1..(i - 1) : PositionDominates(j, i)

\* a result that drops a position dominated by an earlier one and keeps a
\* position whose score vector equals an earlier one
C9_Witness ==
    /\ ParetoDone
    /\ Len(cavity_grid) = 3
    /\ DOMAIN objectives = ObjectiveNames
    /\ Len(pareto_frontier) = 2
    /\ \E i \in 2..3 : PositionDominates(1, i)
    /\ \E i \in 2..3 :
          /\ \A k \in DOMAIN objectives : ObjectiveAt(i, k) = ObjectiveAt(1, k)
          /\ pareto_frontier[2].position = cavity_grid[i].position

----------------------------------------------------------------------------
(* Claims about boltzmann.py *)

BoltzmannDone == pc = "boltzmann_done"

\* sum(probabilities.values())
RECURSIVE SumProbabilities(_)
SumProbabilities(i) ==
    IF i = 0 THEN DblZero
    ELSE DblAdd(SumProbabilities(i - 1), probabilities[i].probability)

\* |x - 1| <= 2^-30, which is within 1e-9
NearOne(x) ==
    /\ x.k = "fin"
    /\ \/ /\ MaxOf(x.bits) = 0
          /\ \A b \in x.bits \ {0} : b < -30
       \/ /\ MaxOf(x.bits) = -1
          /\ \A b \in (-30)..(-1) : b \in x.bits

\* C10: for a non-empty landscape and a positive temperature the result has
\* exactly the landscape's keys, each probability is weight / Z with Z the
\* sum of all weights, and the probabilities sum to 1 within 1e-9.
C10_Normalised ==
    (BoltzmannDone /\ Len(all_scores) > 0 /\ temperature > 0) =>
        /\ [i \in 1..Len(probabilities) |-> probabilities[i].position]
              = [i \in 1..Len(all_scores) |-> all_scores[i].position]
        /\ \A i \in 1..Len(probabilities) :
              probabilities[i].probability
                  = DblDiv(boltzmann_weights[i].weight, Z)
        /\ NearOne(SumProbabilities(Len(probabilities)))

\* a < b on doubles that are not negative; nan compares false
DblLess(a, b) ==
    /\ a.k # "nan" /\ b.k # "nan"
    /\ a # b
    /\ \/ b.k = "inf"
       \/ a.k = "zero"
       \/ /\ a.k = "fin" /\ b.k = "fin"
          /\ LET d == (a.bits \cup b.bits) \ (a.bits \cap b.bits)
             IN  MaxOf(d) \in b.bits

\* a == b on doubles; nan equals nothing
DblEq(a, b) == a.k # "nan" /\ b.k # "nan" /\ a = b

\* C11: for any two offsets a, b of the landscape, score(a) > score(b)
\* gives probability(a) > probability(b), and score(a) = score(b) gives
\* probability(a) = probability(b).
C11_OrderPreserving ==
    (BoltzmannDone /\ temperature > 0) =>
        \A a, b \in 1..Len(all_scores) :
            /\ all_scores[a].score > all_scores[b].score =>
                  DblLess(probabilities[b].probability,
                          probabilities[a].probability)
            /\ all_scores[a].score = all_scores[b].score =>
                  DblEq(probabilities[a].probability,
                        probabilities[b].probability)

\* C12: on an empty landscape boltzmann_ensemble_docking raises; it returns
\* nothing.
C12_EmptyLandscapeFails ==
    (Len(all_scores) = 0 /\ pc \in {"boltzmann_done", "boltzmann_raised"}) =>
        pc = "boltzmann_raised"

----------------------------------------------------------------------------
(* Claims about conformers.py *)

TorsionDone == pc = "torsion_done"

\* the angles i * (360 / torsion_steps) for i = 0 .. torsion_steps - 1
AngleSet(steps) ==
    {DblTimesInt(i, DblRatio(360, steps)) : i \in 0..(steps - 1)}

\* the angles i * 360 / torsion_steps for i = 0 .. torsion_steps - 1
QuotientAngleSet(steps) ==
    {DblRatio(i * 360, steps) : i \in 0..(steps - 1)}

\* the result is the Cartesian product of the set A taken n_bonds times
ProductOf(A) ==
    /\ Len(torsion_states) = Power(torsion_steps, n_bonds)
    /\ \A i \in 1..Len(torsion_states) :
          Len(torsion_states[i]) = n_bonds
    /\ {torsion_states[i] : i \in 1..Len(torsion_states)} = [1..n_bonds -> A]
    /\ \A i, j \in 1..Len(torsion_states) :
          torsion_states[i] = torsion_states[j] => i = j

\* C13, as amended: for n_bonds >= 0 and torsion_steps >= 1,
\* generate_torsion_states returns the Cartesian product of the angle set
\* {i * (360 / torsion_steps) : 0 <= i < torsion_steps} with itself n_bonds
\* times: every tuple has length n_bonds, every combination of angles
\* appears exactly once, and there are torsion_steps ** n_bonds of them.
C13_CartesianProduct == TorsionDone => ProductOf(AngleSet(torsion_steps))

C13_Witness ==
    /\ TorsionDone
    /\ n_bonds = 2
    /\ torsion_steps = 4
    /\ Len(torsion_states) = 16
    /\ torsion_states[16] = <<DblOfInt(270), DblOfInt(270)>>

\* C13, as stated: the result is the Cartesian product of the angle set
\* {i * 360 / torsion_steps : 0 <= i < torsion_steps} taken n_bonds times.
C13_ProductOfQuotients ==
    TorsionDone => ProductOf(QuotientAngleSet(torsion_steps))

BothIndexed == conf_a.indexed /\ conf_b.indexed

\* C14: index() is the position followed by the torsion angles, and for
\* positions of three components two states have the same index exactly
\* when they have the same position and the same torsion angles.
C14_IndexIsUniqueKey ==
    BothIndexed =>
        /\ conf_a.index = conf_a.position \o conf_a.torsion_angles
        /\ conf_b.index = conf_b.position \o conf_b.torsion_angles
        /\ (Len(conf_a.position) = 3 /\ Len(conf_b.position) = 3) =>
              (conf_a.index = conf_b.index <=>
                  /\ conf_a.position = conf_b.position
                  /\ conf_a.torsion_angles = conf_b.torsion_angles)

C14_Witness ==
    /\ BothIndexed
    /\ Len(conf_a.position) = 3
    /\ Len(conf_b.position) = 3
    /\ Len(conf_a.torsion_angles) = 2
    /\ Len(conf_b.torsion_angles) = 1
    /\ conf_a.position # conf_b.position
    /\ conf_a.index # conf_b.index

----------------------------------------------------------------------------
(* Claims about adaptive.py *)

AdaptiveDone == pc = "adaptive_done"

\* the mapping has the initial keys in the initial order, the i-th
\* component of w on the i-th of them
AssignsInOrder(mapping, w) ==
    /\ DictKeys(mapping) = DictKeys(base_weights)
    /\ Len(w) = Len(base_weights)
    /\ \A i \in 1..Len(w) : mapping[i].value = w[i]

\* C15: throughout update_weights the weight mapping keeps the key set and
\* the key order of the initial mapping: the i-th component of every trial
\* vector, and of the optimizer's final vector, goes to the i-th key of the
\* initial mapping, and the returned mapping has exactly the initial keys.
C15_KeyOrderKept ==
    /\ pc \in {"minimize", "adaptive_done"} =>
          /\ DictKeys(weights) = DictKeys(base_weights)
          /\ \A t \in 1..Len(trials) :
                AssignsInOrder(trials[t].weights, trials[t].w)
    /\ AdaptiveDone =>
          /\ AssignsInOrder(returned, minimize_result)
          /\ weights = returned

C15_Witness ==
    /\ AdaptiveDone
    /\ DictKeys(base_weights) = <<"polar", "hydrophobic">>
    /\ Len(trials) = 2
    /\ trials[2].w = <<0, 2>>
    /\ returned = <<[key |-> "polar", value |-> 0],
                    [key |-> "hydrophobic", value |-> 2]>>

ZeroVariance(predicted) ==
    \A i, j \in 1..Len(predicted) : predicted[i] = predicted[j]

\* C16: when all predicted scores of the known binders are identical,
\* update_weights fails with an error and no undefined (NaN) correlation
\* reaches the optimizer as the value of the objective.
C16_ZeroVarianceFails ==
    \A t \in 1..Len(trials) :
        ZeroVariance(trials[t].predicted) =>
            /\ pc = "adaptive_raised"
            /\ trials[t].loss.k # "nan"

----------------------------------------------------------------------------
(* Claims about Voxel *)

\* x lies outside [0, 1]
Outside(x) == x.k # "fin" \/ x.v < 0 \/ x.v > Scale

\* the error names the two bounds and the value of a field that is outside
NamesTheViolation(message) ==
    /\ message.low = Fin(0)
    /\ message.high = Fin(Scale)
    /\ \/ /\ message.field = "Accessibility"
          /\ message.got = voxel_args.accessibility
          /\ Outside(voxel_args.accessibility)
       \/ /\ message.field = "Flexibility"
          /\ message.got = voxel_args.flexibility
          /\ Outside(voxel_args.flexibility)

\* C17: constructing a Voxel with accessibility or flexibility outside
\* [0, 1] raises a validation error whose message names the bounds and the
\* offending value, with no Voxel made and no value clamped; with both in
\* [0, 1], 0.0 and 1.0 included, the Voxel is made with the values given.
C17_VoxelValidation ==
    voxel_outcome # NoOutcome =>
        IF Outside(voxel_args.accessibility) \/ Outside(voxel_args.flexibility)
        THEN /\ voxel_outcome.k = "ValueError"
             /\ voxel_outcome.voxel = NoVoxel
             /\ NamesTheViolation(voxel_outcome.message)
        ELSE /\ voxel_outcome.k = "Voxel"
             /\ voxel_outcome.voxel = voxel_args

C17_Witness ==
    /\ voxel_outcome.k = "ValueError"
    /\ voxel_args.accessibility = Fin(0)
    /\ voxel_args.flexibility = Fin(Scale + 1)
    /\ voxel_outcome.message.got = Fin(Scale + 1)

----------------------------------------------------------------------------
(* Claims about SpatialDocking *)

\* the matrix a call of align works with
MatrixUsed ==
    IF matrix_is_none THEN default_compatibility_matrix
    ELSE compatibility_matrix

\* C18: for any cavity grid and molecule grid, align completes and returns
\* a DockingResult whose score and translation are the best score and best
\* offset of the translation search on those grids with the matrix chosen
\* (the default one when none is given), and whose cavity_grid,
\* molecule_grid and compatibility_matrix are the inputs used.
C18_AlignReturnsSearchResult ==
    align_result # NoAlign =>
        /\ align_result.k = "DockingResult"
        /\ \E gap \in GapPenalties \cup {DefaultGapPenalty} :
              LET found == spatial_alignment(cavity_grid, molecule_grid,
                                             MatrixUsed, gap)
              IN  /\ align_result.score = found.score
                  /\ align_result.translation = found.offset
        /\ align_result.cavity_grid = cavity_grid
        /\ align_result.molecule_grid = molecule_grid
        /\ align_result.compatibility_matrix = MatrixUsed

\* C19: the gap_penalty of the SpatialDocking instance is the one its align
\* applies: the score returned is the best placement score plus that
\* gap_penalty, which is also the value of metadata['gap_penalty'].
C19_InstanceGapPenaltyApplied ==
    align_result # NoAlign =>
        /\ align_result.k = "DockingResult"
        /\ align_result.score =
              spatial_alignment(cavity_grid, molecule_grid, MatrixUsed,
                                docker.gap_penalty).score
        /\ align_result.metadata.gap_penalty = docker.gap_penalty

\* C20: for any list of molecule grids, align_multiple returns a list with
\* one DockingResult per molecule, ordered by score from highest to lowest.
C20_OneResultPerMolecule ==
    multiple.pc \in {"returned", "raised"} =>
        /\ multiple.pc = "returned"
        /\ Len(multiple.returned) = Len(molecules)
        /\ \A i \in 1..Len(multiple.returned) :
              multiple.returned[i].k = "DockingResult"
        /\ \A i, j \in 1..Len(multiple.returned) :
              i < j => ~FGt(multiple.returned[j].score,
                            multiple.returned[i].score)

----------------------------------------------------------------------------
(* Claims about the operations together *)

\* C21: calculate_placement_score, spatial_alignment, pareto_optimal_docking
\* and get_binding_site_analysis leave what they are given as it was: the
\* cavity grid, the molecule grid and their voxels, the compatibility
\* matrix, the objectives and the DockingResult.
C21_InputsUnchanged ==
    [][/\ cavity_grid' = cavity_grid
       /\ molecule_grid' = molecule_grid
       /\ compatibility_matrix' = compatibility_matrix
       /\ objectives' = objectives
       /\ docking_result' = docking_result]_vars

\* an analysis has looked up a pair the matrix does not hold, after a
\* direct scoring call
C21_Witness ==
    /\ pc = "analysis_done"
    /\ scored.called
    /\ \E i \in 1..Len(analysis.interactions) :
          <<analysis.interactions[i].molecule_type,
            analysis.interactions[i].cavity_type>>
              \notin DOMAIN docking_result.compatibility_matrix

----------------------------------------------------------------------------
(* Claims about get_binding_site_analysis *)

InteractionScores == [k \in 1..Len(analysis.interactions) |->
                         analysis.interactions[k].score]

\* C27: the analysis lists exactly one interaction per overlapping molecule
\* voxel, each with the score the scorer contributes for that voxel (pairs
\* held in the reversed order included), so that the interaction scores sum
\* to the scorer's raw sum at result.translation; and total_score equals
\* result.score.
C27_AnalysisMatchesScorer ==
    pc = "analysis_done" =>
        LET cavity == docking_result.cavity_grid
            molecule == docking_result.molecule_grid
            matrix == docking_result.compatibility_matrix
            offset == docking_result.translation
            O == Overlapping(cavity, molecule, offset)
            contribution == ReferenceContribution(cavity, molecule, offset,
                                                  matrix)
        IN  /\ Len(analysis.interactions) = Cardinality(O)
            /\ \A i \in O :
                  \E k \in 1..Len(analysis.interactions) :
                      /\ analysis.interactions[k].molecule_voxel
                            = molecule[i].position
                      /\ analysis.interactions[k].score = contribution[i]
            /\ SumSeq(InteractionScores)
                  = ScoreLoop(cavity, molecule, offset, matrix, 1,
                              [score |-> 0, overlap_count |-> 0]).score
            /\ analysis.total_score = docking_result.score

----------------------------------------------------------------------------
(* Claims about missing matrix entries *)

\* the overlapping molecule voxels whose pair the matrix holds in neither
\* order
AbsentOverlaps(cavity, molecule, offset, matrix) ==
    {i \in Overlapping(cavity, molecule, offset) :
        LET mol_type == molecule[i].property_type
            cav_type == Lookup(cavity, Translate(molecule[i].position,
                                                 offset)).property_type
        IN  /\ <<mol_type, cav_type>> \notin DOMAIN matrix
            /\ <<cav_type, mol_type>> \notin DOMAIN matrix}

Magnitude(v) == IF v < 0 THEN -v ELSE v

----------------------------------------------------------------------------
(* Claims about comparing against the frontier only *)

\* the indices, in evaluation order, that the procedure comparing each
\* position with the accepted ones only has accepted among the first n
RECURSIVE FrontierOnly(_)
FrontierOnly(n) ==
    IF n = 0 THEN <<>>
    ELSE LET accepted == FrontierOnly(n - 1)
         IN  IF \E a \in 1..Len(accepted) : PositionDominates(accepted[a], n)
             THEN accepted
             ELSE Append(accepted, n)

SolutionAt(i) ==
    [position |-> cavity_grid[i].position,
     scores |-> [k \in DOMAIN objectives |-> ObjectiveAt(i, k)]]

\* C25: comparing each new position with all the solutions evaluated
\* before it, as pareto_optimal_docking does, returns the sequence that
\* comparing it with the already accepted positions only returns.
C25_FrontierOnlyComparison ==
    pc \in {"pareto", "pareto_done"} =>
        LET accepted == FrontierOnly(idx - 1)
        IN  pareto_frontier
              = [a \in 1..Len(accepted) |-> SolutionAt(accepted[a])]

\* a finished call in which a rejected position dominates a later one
C25_Witness ==
    /\ ParetoDone
    /\ \E j, i \in 1..Len(cavity_grid) :
          /\ j < i
          /\ PositionDominates(j, i)
          /\ \A a \in 1..Len(pareto_frontier) :
                pareto_frontier[a].position # cavity_grid[j].position

----------------------------------------------------------------------------
(* Claims about the order of writes in update_weights *)

\* the mapping a trial vector makes on the keys of the tuner
TrialMapping(w) == Zip(DictKeys(base_weights), w)

\* C24: every objective evaluation writes the trial vector into the
\* tuner's mapping before it calls the scoring function, which it calls
\* once per known binder, in list order, with that mapping; when
\* update_weights returns, the stored weights are the returned mapping,
\* made from the optimizer's final vector.
C24_WriteThenScore ==
    LET n == Len(known_binders)
    IN  /\ pc \in {"minimize", "adaptive_done"} =>
              /\ Len(scoring_calls) = n * Len(trials)
              /\ \A t \in 1..Len(trials) :
                    /\ trials[t].weights = TrialMapping(trials[t].w)
                    /\ \A b \in 1..n :
                          scoring_calls[(t - 1) * n + b]
                            = [trial |-> t, binder |-> b,
                               weights |-> TrialMapping(trials[t].w)]
              /\ (pc = "minimize" /\ trials # <<>>) =>
                    weights = TrialMapping(trials[Len(trials)].w)
        /\ AdaptiveDone =>
              /\ weights = returned
              /\ returned = TrialMapping(minimize_result)

\* a finished update whose final vector is neither the initial one nor the
\* last one tried
C24_Witness ==
    /\ AdaptiveDone
    /\ Len(trials) = 3
    /\ minimize_result = trials[2].w
    /\ minimize_result # initial
    /\ minimize_result # trials[3].w
    /\ weights # base_weights
    /\ weights # trials[3].weights

----------------------------------------------------------------------------
(* Claims about the caller's mapping *)

\* the mapping the caller built: each of its keys with the base value
CallersMapping(mapping) ==
    \A i \in 1..Len(mapping) : mapping[i].value = BaseValue[mapping[i].key]

\* C28: update_weights never modifies the mapping object passed as
\* base_weights: every trial and the final result go to a new mapping that
\* the tuner is bound to instead, so after any number of calls the
\* caller's mapping holds its initial keys and values.
C28_BaseWeightsUntouched ==
    [][/\ base_weights' = base_weights
       /\ weights' # weights => ~weights_is_base']_vars

\* a second update_weights has returned and the tuner holds other values
\* than the caller's mapping, which is as the caller built it
C28_Witness ==
    /\ AdaptiveDone
    /\ updates_left = 0
    /\ weights # base_weights
    /\ ~weights_is_base
    /\ Len(base_weights) = 2
    /\ CallersMapping(base_weights)

----------------------------------------------------------------------------
(* Claims about scoring the candidates in parallel *)

FanOutDone == pc = "fanout_done"

\* what a worker step may change: one slot not yet written, to the score
\* of its own candidate
WritesOwnSlot ==
    \E i \in 1..Len(worker_scores) :
        /\ ~worker_scores[i].done
        /\ worker_scores'[i].done
        /\ \A j \in 1..Len(worker_scores) :
              j # i => worker_scores'[j] = worker_scores[j]

\* C22: when the candidate offsets are scored by independent workers, in
\* any interleaving and completion order, and the maximum is reduced in
\* the key order of the cavity grid with the first of equal scores kept,
\* the (best_score, best_offset) obtained is that of the sequential
\* spatial_alignment; a worker writes only the slot of its own candidate,
\* which no other worker reads or writes.
C22_FanOutEqualsSequential ==
    /\ [](FanOutDone =>
            [score |-> fanout.score, offset |-> fanout.offset]
              = spatial_alignment(cavity_grid, molecule_grid,
                                  compatibility_matrix, gap_penalty))
    /\ [][(pc = "fanout" /\ pc' = "fanout") =>
             (WritesOwnSlot /\ inputs' = inputs /\ fanout' = fanout)]_vars

\* the workers of a two-candidate search finished in the reverse of the
\* key order, the two scores are equal and the first key is returned
C22_Witness ==
    /\ FanOutDone
    /\ Len(worker_scores) = 2
    /\ worker_scores[1].score = worker_scores[2].score
    /\ fanout.offset = cavity_positions[1]
    /\ fanout.offset # <<0, 0, 0>>

----------------------------------------------------------------------------
(* alignment.py: spatial_alignment on doubles, run with two gap penalties *)

DblWeights == {DblFin({0}), DblFin({1})}
DblMatrices ==
    UNION {[D -> DblWeights] :
              D \in SUBSET {<<"hydrophobic", "hydrophobic">>,
                            <<"hydrophobic", "polar">>}}
DblGapPenalties == {DblZero, DblFin({0}), DblFin({54})}

\* lines 7-24 for a molecule of at most one voxel: the sum is 0.0 or
\* 0.0 + the pair's weight, and with one overlap
\* score / 1 * np.sqrt(1) is score
DblPlacementScore(cavity, molecule, offset, matrix) ==
    IF Overlapping(cavity, molecule, offset) = {} THEN DblZero
    ELSE LET mol_voxel == molecule[1]
             cavity_voxel == Lookup(cavity,
                                    Translate(mol_voxel.position, offset))
             pair == <<mol_voxel.property_type, cavity_voxel.property_type>>
             reverse_pair == <<cavity_voxel.property_type,
                               mol_voxel.property_type>>
         IN  IF pair \in DOMAIN matrix THEN DblAdd(DblZero, matrix[pair])
             ELSE IF reverse_pair \in DOMAIN matrix
             THEN DblAdd(DblZero, matrix[reverse_pair])
             ELSE DblZero

\* line 33
DblCandidateScoreNoGap(placement_score, gap) == placement_score

DblCandidateScore(placement_score, gap) == DblAdd(placement_score, gap)

\* line 34: score > best_score, where best_score is -inf until a candidate
\* has been taken
DblBetter(score, best, started) ==
    IF started THEN DblLess(best, score) ELSE score.k # "nan"

\* lines 27-29
GapCall ==
    /\ gap_search.pc = "idle"
    /\ Len(gap_search.results) < 2
    /\ gap_search' = [gap_search EXCEPT
                         !.pc = "loop",
                         !.run = Len(gap_search.results) + 1,
                         !.i = 1,
                         !.best_score = DblZero,
                         !.best_offset = <<0, 0, 0>>,
                         !.started = FALSE]
    /\ UNCHANGED <<search_vars, pc, idx, first_extensions, analysis_vars,
                   fanout_vars, gap_pair>>

\* lines 31-36
GapIterate ==
    /\ gap_search.pc = "loop"
    /\ gap_search.i <= Len(cavity_grid)
    /\ LET cavity_pos == cavity_grid[gap_search.i].position
           placement_score ==
               DblPlacementScore(cavity_grid, molecule_grid, cavity_pos,
                                 compatibility_matrix)
           score == DblCandidateScore(placement_score,
                                      gap_pair[gap_search.run])
       IN  gap_search' =
               IF DblBetter(score, gap_search.best_score, gap_search.started)
               THEN [gap_search EXCEPT !.i = @ + 1,
                                       !.best_score = score,
                                       !.best_offset = cavity_pos,
                                       !.started = TRUE]
               ELSE [gap_search EXCEPT !.i = @ + 1]
    /\ UNCHANGED <<search_vars, pc, idx, first_extensions, analysis_vars,
                   fanout_vars, gap_pair>>

\* line 38
GapReturn ==
    /\ gap_search.pc = "loop"
    /\ gap_search.i > Len(cavity_grid)
    /\ gap_search' =
          [gap_search EXCEPT
              !.pc = "idle",
              !.results = Append(@, [score |-> gap_search.best_score,
                                     offset |-> gap_search.best_offset])]
    /\ UNCHANGED <<search_vars, pc, idx, first_extensions, analysis_vars,
                   fanout_vars, gap_pair>>

InitGap ==
    /\ cavity_grid \in Grids(MaxCavity) \ {<<>>}
    /\ molecule_grid \in {g \in Grids(1) :
                             \A i \in 1..Len(g) : g[i].position = <<0, 0, 0>>}
    /\ compatibility_matrix \in DblMatrices
    /\ gap_penalty = 0
    /\ objectives = NoObjectives
    /\ all_scores = <<>>
    /\ temperature = 300
    /\ NoConformers
    /\ NoAdaptive
    /\ NoVoxels
    /\ NoDocking
    /\ NoAnalysed
    /\ gap_pair \in DblGapPenalties \X DblGapPenalties
    /\ Idle

NextGap == GapCall \/ GapIterate \/ GapReturn

SpecGap == InitGap /\ [][NextGap]_vars

----------------------------------------------------------------------------
(* Claims about the gap penalty *)

GapDone == gap_search.pc = "idle" /\ Len(gap_search.results) = 2

\* x + y, exactly, for doubles that are finite and not negative
ExactSum(x, y) == AddBits(x.bits, y.bits)

\* the two searches return one offset, and their scores differ by
\* g1 - g2: best1 + g2 = best2 + g1
SameOffsetShiftedScore ==
    /\ gap_search.results[1].offset = gap_search.results[2].offset
    /\ ExactSum(gap_search.results[1].score, gap_pair[2])
          = ExactSum(gap_search.results[2].score, gap_pair[1])

\* every candidate's placement_score + gap_penalty is its real sum
SumsExact ==
    \A i \in 1..Len(cavity_grid), r \in 1..2 :
        LET placement_score ==
                DblPlacementScore(cavity_grid, molecule_grid,
                                  cavity_grid[i].position,
                                  compatibility_matrix)
        IN  DblAdd(placement_score, gap_pair[r]).bits
              = ExactSum(placement_score, gap_pair[r])

\* C26 as stated: for a non-empty cavity grid, any two finite gap
\* penalties give the same best_offset, and best scores that differ by
\* exactly g1 - g2.
C26_GapIndependent == GapDone => SameOffsetShiftedScore

\* C26: for a non-empty cavity grid, any two finite gap penalties for
\* which every candidate's placement_score + gap_penalty is computed
\* without rounding give the same best_offset, and best scores that
\* differ by exactly g1 - g2.
C26_GapIndependentWhenExact ==
    (GapDone /\ SumsExact) => SameOffsetShiftedScore

\* two searches with different gap penalties and exact sums whose best
\* offset is the second key
C26_Witness ==
    /\ GapDone
    /\ SumsExact
    /\ gap_pair[1] # gap_pair[2]
    /\ Len(cavity_grid) = 2
    /\ gap_search.results[1].offset = cavity_grid[2].position
    /\ gap_search.results[2].offset = cavity_grid[2].position

====
